---- MODULE Spec2Model ----
(***************************************************************************)
(* Asset lifecycle of NFT FORGE (src/App.tsx, src/services/geminiService.ts *)
(* and the Button component): generation, bounded history, listing,        *)
(* deletion, editing and the local-storage synchronisation, as a state     *)
(* machine whose actions are the event handlers and the continuations of   *)
(* the two suspended operations (the generation call, the image decode).   *)
(***************************************************************************)
EXTENDS Integers, Sequences, FiniteSets, TLC

\* ------------------------------------------------------------------ bounds
\* Commands of one session that start a generation or an edit-apply, delete or
\* list an asset, or change the aspect ratio or an edit parameter.
MaxOps == 2
\* The oldest history item and the MaxPick newest are the ones clicked.
MaxPick == 1

\* ------------------------------------------------------- program constants
\* [newNFT, ...prev].slice(0, 12)
HistoryCap == 12

ASPECT_RATIOS == <<"1:1", "3:4", "4:3", "9:16", "16:9">>

INITIAL_EDIT_STATE ==
    [brightness |-> 100, contrast |-> 100, grayscale |-> 0, sepia |-> 0, rotation |-> 0]

\* ------------------------------------------------------------ value helpers
Range(s) == {s[i] : i \in 1..Len(s)}

RECURSIVE SelectSeqBy(_, _)
\* Array.prototype.filter keeping the items whose id differs from `id`.
SelectSeqBy(s, id) ==
    IF s = <<>> THEN <<>>
    ELSE IF Head(s).id # id THEN <<Head(s)>> \o SelectSeqBy(Tail(s), id)
         ELSE SelectSeqBy(Tail(s), id)

\* Array.prototype.slice(0, n)
Slice0(s, n) == SubSeq(s, 1, IF Len(s) < n THEN Len(s) ELSE n)

RemoveAt(s, i) == SubSeq(s, 1, i - 1) \o SubSeq(s, i + 1, Len(s))

\* Text is a sequence of one-character strings.
IsSpace(c) == c \in {" ", "\t", "\n"}

RECURSIVE TrimStart(_)
TrimStart(t) == IF t # <<>> /\ IsSpace(Head(t)) THEN TrimStart(Tail(t)) ELSE t

RECURSIVE TrimEnd(_)
TrimEnd(t) ==
    IF t # <<>> /\ IsSpace(t[Len(t)]) THEN TrimEnd(SubSeq(t, 1, Len(t) - 1)) ELSE t

\* String.prototype.trim
Trim(t) == TrimEnd(TrimStart(t))

\* ------------------------------------------------------------------ images
\* A raster payload: what the base64 text of a data URI decodes to. src names
\* the picture, w and h are its dimensions (0 x 0: nothing decodable), fx the
\* edit parameters composited into it so far.
EmptyPayload == [src |-> "", w |-> 0, h |-> 0, fx |-> <<>>]
PayloadA == [src |-> "A", w |-> 2, h |-> 1, fx |-> <<>>]
PayloadB == [src |-> "B", w |-> 1, h |-> 1, fx |-> <<>>]

\* A url is the sequence of the chunks concatenated into it; '' is <<>>.
DataUrl(payload) == <<"data:image/png;base64,", payload>>

\* The bug of resuming applyEdits from img.onerror as from img.onload.
DecodesOrFails(url) == Len(url) = 2

\* The browser's decode of img.src: onload fires only for a decodable image.
Decodes(url) == Len(url) = 2 /\ url[2].w > 0 /\ url[2].h > 0

\* ------------------------------------------------- generation collaborator
\* What ai.models.generateContent does with one call: it rejects with an error
\* carrying `message`, or resolves with a response whose first candidate holds
\* `parts`. A part is <<>> (no inlineData) or <<payload>> (its inlineData.data).
Rejected(m) == [rejects |-> TRUE, message |-> m, candidates |-> <<>>]
Resolved(c) == [rejects |-> FALSE, message |-> "", candidates |-> c]

Responses ==
    { Rejected("quota exceeded"),
      Rejected(""),
      Resolved(<<>>),
      Resolved(<< << <<>> >> >>),
      Resolved(<< << <<>>, <<PayloadA>>, <<PayloadB>> >> >>),
      Resolved(<< << <<EmptyPayload>> >> >>) }

MsgNoKey == "API Key is missing. Please ensure it's configured in the environment."
MsgNoImage == "Failed to extract image from model response."
MsgGeneric == "An error occurred while generating the image."
MsgNoPrompt == "Please enter a prompt to generate an image."
NoError == "null"

RECURSIVE FirstInline(_)
\* for (const part of parts) if (part.inlineData) { imageUrl = ...; break }
FirstInline(parts) ==
    IF parts = <<>> THEN <<>>
    ELSE IF Head(parts) # <<>> THEN DataUrl(Head(parts)[1])
         ELSE FirstInline(Tail(parts))

\* let imageUrl = ''; if (response.candidates && response.candidates[0]?.content?.parts) ...
ExtractImage(resp) ==
    IF resp.candidates # <<>> THEN FirstInline(resp.candidates[1]) ELSE <<>>

\* The bug of returning imageUrl without the `if (!imageUrl) throw`.
generateNFTImageUnchecked(resp) ==
    IF resp.rejects THEN [ok |-> FALSE, url |-> <<>>, message |-> resp.message]
    ELSE [ok |-> TRUE, url |-> ExtractImage(resp), message |-> ""]

\* generateNFTImage once the collaborator has answered with resp: the url it
\* returns, or the error it throws.
generateNFTImage(resp) ==
    IF resp.rejects THEN [ok |-> FALSE, url |-> <<>>, message |-> resp.message]
    ELSE IF ExtractImage(resp) = <<>>
         THEN [ok |-> FALSE, url |-> <<>>, message |-> MsgNoImage]
         ELSE [ok |-> TRUE, url |-> ExtractImage(resp), message |-> ""]

\* err.message || "An error occurred while generating the image."
ErrorText(m) == IF m = "" THEN MsgGeneric ELSE m

\* ---------------------------------------------------------- durable storage
\* A stored text: absent (getItem gives null), text JSON.parse rejects, the
\* JSON text of an array, or JSON text that parses to something else ('{}',
\* 'null').
Absent == [kind |-> "absent", value |-> <<>>]
Garbage == [kind |-> "garbage", value |-> <<>>]
ObjectText == [kind |-> "object", value |-> <<>>]
NullText == [kind |-> "null", value |-> <<>>]

\* JSON.stringify of an array, given the JSON of its items.
Stringify(arr) == [kind |-> "json", value |-> arr]

\* The bug of storing the assets without their image data.
StringifyNFTWithoutData(nft) ==
    << <<"id", nft.id>>, <<"url", <<nft.url[1], EmptyPayload>>>>,
       <<"prompt", nft.prompt>>, <<"timestamp", nft.timestamp>>,
       <<"aspectRatio", nft.aspectRatio>> >>

\* JSON.stringify of an asset: an object with the asset's own properties as
\* its members, in the order the object literal created them.
StringifyNFT(nft) ==
    << <<"id", nft.id>>, <<"url", nft.url>>, <<"prompt", nft.prompt>>,
       <<"timestamp", nft.timestamp>>, <<"aspectRatio", nft.aspectRatio>> >>

\* JSON.stringify(history)
StringifyHistory(h) == Stringify([k \in 1..Len(h) |-> StringifyNFT(h[k])])

RECURSIVE Member(_, _)
\* The value of the member named key of a parsed JSON object.
Member(obj, key) ==
    IF Head(obj)[1] = key THEN Head(obj)[2] ELSE Member(Tail(obj), key)

\* The asset the program reads from a parsed JSON object.
ParseNFT(obj) ==
    [id |-> Member(obj, "id"), url |-> Member(obj, "url"),
     prompt |-> Member(obj, "prompt"), timestamp |-> Member(obj, "timestamp"),
     aspectRatio |-> Member(obj, "aspectRatio")]

\* Array.from(listedIds): the ids in insertion order.
ArrayFrom(set) == set

RECURSIVE NewSet(_)
\* new Set(array): insertion order, later duplicates dropped.
NewSet(arr) ==
    IF arr = <<>> THEN <<>>
    ELSE LET init == NewSet(SubSeq(arr, 1, Len(arr) - 1))
             x == arr[Len(arr)]
         IN IF x \in Range(init) THEN init ELSE Append(init, x)

\* The bug of pushing the id onto a list instead of adding it to a set.
SetAddAlways(set, id) == Append(set, id)

\* new Set(prev).add(id)
SetAdd(set, id) == IF id \in Range(set) THEN set ELSE Append(set, id)

\* The bug of deleting from a copy that is then dropped.
SetDeleteNothing(set, id) == set

\* next = new Set(prev); next.delete(id)
SetDelete(set, id) == SelectSeq(set, LAMBDA x : x # id)

\* The sync effect: both records are rewritten from the rendered state.
Persist(h, l) ==
    [nft_history |-> StringifyHistory(h), nft_listed |-> Stringify(ArrayFrom(l))]

\* The load effect's reading of nft_history: the history it sets (the initial
\* [] when the record is absent or does not parse; for a text that parses to
\* no array see RenderThrows).
LoadHistory(text) ==
    IF text.kind = "json"
    THEN [k \in 1..Len(text.value) |-> ParseNFT(text.value[k])]
    ELSE <<>>

\* setHistory(parsed) with a parsed value that is no array ({} or null; for
\* null `parsed.length` throws after setHistory and is caught): the render
\* that follows throws at history.map and React unmounts the tree.
RenderThrows(text) == text.kind \in {"object", "null"}

\* if (parsed.length > 0) setCurrentNFT(parsed[0])
LoadCurrent(text) ==
    IF text.kind = "json" /\ Len(text.value) > 0
    THEN <<ParseNFT(text.value[1])>>
    ELSE <<>>

\* The load effect's reading of nft_listed: new Set({}) throws and is caught,
\* new Set(null) is the empty set.
LoadListed(text) == IF text.kind = "json" THEN NewSet(text.value) ELSE <<>>

\* --------------------------------------------------------------- the state
VARIABLES
    viewMode,      \* 'forge' | 'marketplace'
    prompt,        \* the textarea's text
    aspectRatio,   \* the chosen aspect ratio
    isGenerating,  \* the busy flag
    history,       \* GeneratedNFT[], newest first
    listedIds,     \* Set<string>, as the sequence of its members in insertion order
    error,         \* string | null
    currentNFT,    \* GeneratedNFT | null: <<>> or <<nft>>
    isEditing,     \* the edit panel is open
    editState,     \* EditState
    canvas,        \* the hidden canvas: [width, height]
    storage,       \* localStorage: [nft_history, nft_listed]
    apiKey,        \* process.env.API_KEY is set
    gens,          \* handleGenerate closures suspended at the collaborator call
    edits,         \* applyEdits closures suspended at the image decode
    nextId,        \* the next value of crypto.randomUUID()
    clock,         \* Date.now()
    ops,           \* commands issued so far (the session's length)
    loaded,        \* savedHistory and savedListed, as the load effect read them
    crashed        \* a render threw: the tree is unmounted

vars == <<viewMode, prompt, aspectRatio, isGenerating, history, listedIds, error,
          currentNFT, isEditing, editState, canvas, storage, apiKey, gens, edits,
          nextId, clock, ops, loaded, crashed>>

\* ------------------------------------------------------------------ inputs
\* Texts typed into the prompt textarea.
Prompts == { <<" ">>, <<"a">> }

\* Aspect ratios clicked.
RatioInputs == { ASPECT_RATIOS[1], ASPECT_RATIOS[5] }

\* Values the range inputs are dragged to.
SliderInputs == { 200 }

\* An asset a previous session generated and stored.
StoredAsset(i) ==
    [id |-> i, url |-> DataUrl(PayloadA), prompt |-> <<"a">>, timestamp |-> i,
     aspectRatio |-> ASPECT_RATIOS[1]]

\* The history a previous session stored after n generations, newest first.
StoredHistory(n) == [k \in 1..n |-> StoredAsset(n + 1 - k)]

\* What localStorage holds when the page is opened.
StoredStates ==
    { [nft_history |-> Absent, nft_listed |-> Absent],
      [nft_history |-> Garbage, nft_listed |-> Garbage],
      [nft_history |-> StringifyHistory(StoredHistory(HistoryCap)),
       nft_listed |-> Stringify(<<>>)],
      [nft_history |-> ObjectText, nft_listed |-> ObjectText],
      [nft_history |-> NullText, nft_listed |-> NullText] }

\* ---------------------------------------------------------------- mounting
\* The first render (useState initial values), the load effect, the sync
\* effect of the first render and, unless the re-render with the loaded state
\* throws, the sync effect that follows it. When it throws, what is left is
\* the first render's state and what its sync effect wrote.
Mounted(stored, key) ==
    /\ loaded = stored
    /\ crashed = RenderThrows(stored.nft_history)
    /\ viewMode = "forge"
    /\ prompt = <<>>
    /\ aspectRatio = ASPECT_RATIOS[1]
    /\ isGenerating = FALSE
    /\ history = LoadHistory(stored.nft_history)
    /\ listedIds = IF RenderThrows(stored.nft_history) THEN <<>>
                   ELSE LoadListed(stored.nft_listed)
    /\ error = NoError
    /\ currentNFT = LoadCurrent(stored.nft_history)
    /\ isEditing = FALSE
    /\ editState = INITIAL_EDIT_STATE
    /\ canvas = [width |-> 300, height |-> 150]
    /\ storage = IF RenderThrows(stored.nft_history) THEN Persist(<<>>, <<>>)
                 ELSE Persist(LoadHistory(stored.nft_history),
                              LoadListed(stored.nft_listed))
    /\ apiKey = key
    /\ gens = <<>>
    /\ edits = <<>>
    /\ nextId = Len(LoadHistory(stored.nft_history)) + 1
    /\ clock = Len(LoadHistory(stored.nft_history)) + 1
    /\ ops = 0

Init == \E stored \in StoredStates, key \in BOOLEAN : Mounted(stored, key)

\* The tree is mounted: the handlers can be called.
IsMounted == ~crashed

\* ------------------------------------------------------------ view and form
\* onClick={() => setViewMode(mode)}
SetViewMode(mode) ==
    /\ IsMounted
    /\ viewMode' = mode
    /\ UNCHANGED <<prompt, aspectRatio, isGenerating, history, listedIds,
                   error, currentNFT, isEditing, editState, canvas, storage,
                   apiKey, gens, edits, nextId, clock, ops, loaded, crashed>>

\* onChange={(e) => setPrompt(e.target.value)}
SetPrompt(text) ==
    /\ IsMounted
    /\ viewMode = "forge"
    /\ prompt' = text
    /\ UNCHANGED <<viewMode, aspectRatio, isGenerating, history, listedIds,
                   error, currentNFT, isEditing, editState, canvas, storage,
                   apiKey, gens, edits, nextId, clock, ops, loaded, crashed>>

\* onClick={() => setAspectRatio(ratio)}
SetAspectRatio(ratio) ==
    /\ IsMounted
    /\ viewMode = "forge"
    /\ aspectRatio' = ratio
    /\ ops' = ops + 1
    /\ UNCHANGED <<viewMode, prompt, isGenerating, history, listedIds, error,
                   currentNFT, isEditing, editState, canvas, storage, apiKey,
                   gens, edits, nextId, clock, loaded, crashed>>

\* -------------------------------------------------------------- generation
\* The bug of a Button that forgets isLoading.
ButtonIgnoresLoading(isLoading, disabled) == disabled

\* Button: disabled={isLoading || disabled}
ButtonDisabled(isLoading, disabled) == isLoading \/ disabled

\* The Generate Asset button can be clicked.
GenerateClickable == viewMode = "forge" /\ ~ButtonDisabled(isGenerating, FALSE)

\* The bug of testing the prompt without trimming it.
PromptIsEmpty(text) == text = <<>>

\* if (!prompt.trim())
PromptIsBlank(text) == Trim(text) = <<>>

\* handleGenerate, blank prompt: setError(...); return
GenerateBlank ==
    /\ IsMounted
    /\ GenerateClickable
    /\ PromptIsBlank(prompt)
    /\ error' = MsgNoPrompt
    /\ UNCHANGED <<viewMode, prompt, aspectRatio, isGenerating, history,
                   listedIds, currentNFT, isEditing, editState, canvas,
                   storage, apiKey, gens, edits, nextId, clock, ops, loaded,
                   crashed>>

\* handleGenerate without an API key: generateNFTImage throws before it
\* suspends, so catch and finally run before any other event is handled.
GenerateNoKey ==
    /\ IsMounted
    /\ GenerateClickable
    /\ ~PromptIsBlank(prompt)
    /\ ~apiKey
    /\ isGenerating' = FALSE
    /\ error' = ErrorText(MsgNoKey)
    /\ isEditing' = FALSE
    /\ UNCHANGED <<viewMode, prompt, aspectRatio, history, listedIds,
                   currentNFT, editState, canvas, storage, apiKey, gens,
                   edits, nextId, clock, ops, loaded, crashed>>

\* handleGenerate up to `await generateNFTImage(prompt, aspectRatio)`: the
\* closure keeps the prompt and the aspect ratio of this render.
GenerateStart ==
    /\ IsMounted
    /\ GenerateClickable
    /\ ~PromptIsBlank(prompt)
    /\ apiKey
    /\ isGenerating' = TRUE
    /\ error' = NoError
    /\ isEditing' = FALSE
    /\ gens' = Append(gens, [prompt |-> prompt, aspectRatio |-> aspectRatio])
    /\ ops' = ops + 1
    /\ UNCHANGED <<viewMode, prompt, aspectRatio, history, listedIds,
                   currentNFT, editState, canvas, storage, apiKey, edits,
                   nextId, clock, loaded, crashed>>

\* The bug of reading the form when the call returns instead of the closure.
NewNFTFromForm(call, url, id, now) ==
    [id |-> id, url |-> url, prompt |-> prompt, timestamp |-> now,
     aspectRatio |-> aspectRatio]

\* const newNFT = { id: crypto.randomUUID(), url, prompt, timestamp: Date.now(), aspectRatio }
NewNFT(call, url, id, now) ==
    [id |-> id, url |-> url, prompt |-> call.prompt, timestamp |-> now,
     aspectRatio |-> call.aspectRatio]

\* The bug of leaving the slice out.
PrependUnbounded(nft, prev) == <<nft>> \o prev

\* The bug of slice(-12): the last 12 are kept, so a full history drops the
\* new asset.
PrependKeepLast(nft, prev) ==
    SubSeq(<<nft>> \o prev,
           IF Len(prev) + 1 > HistoryCap THEN Len(prev) + 2 - HistoryCap ELSE 1,
           Len(prev) + 1)

\* prev => [newNFT, ...prev].slice(0, 12)
Prepend(nft, prev) == Slice0(<<nft>> \o prev, HistoryCap)

\* The continuation of call i when generateNFTImage returns a url.
GenerateSuccess(i, resp) ==
    /\ IsMounted
    /\ i \in 1..Len(gens)
    /\ generateNFTImage(resp).ok
    /\ LET newNFT == NewNFT(gens[i], generateNFTImage(resp).url, nextId, clock)
       IN /\ currentNFT' = <<newNFT>>
          /\ history' = Prepend(newNFT, history)
          /\ storage' = Persist(Prepend(newNFT, history), listedIds)
    /\ isGenerating' = FALSE
    /\ gens' = RemoveAt(gens, i)
    /\ nextId' = nextId + 1
    /\ clock' = clock + 1
    /\ UNCHANGED <<viewMode, prompt, aspectRatio, listedIds, error, isEditing,
                   editState, canvas, apiKey, edits, ops, loaded, crashed>>

\* The bug of clearing the busy flag at the end of the try block only.
GenerateFailureStaysBusy(i, resp) ==
    /\ IsMounted
    /\ i \in 1..Len(gens)
    /\ ~generateNFTImage(resp).ok
    /\ error' = ErrorText(generateNFTImage(resp).message)
    /\ gens' = RemoveAt(gens, i)
    /\ UNCHANGED <<viewMode, prompt, aspectRatio, isGenerating, history,
                   listedIds, currentNFT, isEditing, editState, canvas,
                   storage, apiKey, edits, nextId, clock, ops, loaded, crashed>>

\* The continuation of call i when generateNFTImage throws: catch, finally.
GenerateFailure(i, resp) ==
    /\ IsMounted
    /\ i \in 1..Len(gens)
    /\ ~generateNFTImage(resp).ok
    /\ error' = ErrorText(generateNFTImage(resp).message)
    /\ isGenerating' = FALSE
    /\ gens' = RemoveAt(gens, i)
    /\ UNCHANGED <<viewMode, prompt, aspectRatio, history, listedIds,
                   currentNFT, isEditing, editState, canvas, storage, apiKey,
                   edits, nextId, clock, ops, loaded, crashed>>

\* ------------------------------------------------------- selection, listing
\* onClick={() => { setCurrentNFT(item); setIsEditing(false); }}
Select(i) ==
    /\ IsMounted
    /\ viewMode = "forge"
    /\ i \in 1..Len(history)
    /\ currentNFT' = <<history[i]>>
    /\ isEditing' = FALSE
    /\ UNCHANGED <<viewMode, prompt, aspectRatio, isGenerating, history,
                   listedIds, error, editState, canvas, storage, apiKey, gens,
                   edits, nextId, clock, ops, loaded, crashed>>

Platforms == {"x", "linkedin", "github"}

\* listOnPlatform(platform, nft): window.open(shareUrl); setListedIds(...)
listOnPlatform(platform, i) ==
    /\ IsMounted
    /\ viewMode = "marketplace"
    /\ i \in 1..Len(history)
    /\ listedIds' = SetAdd(listedIds, history[i].id)
    /\ storage' = Persist(history, SetAdd(listedIds, history[i].id))
    /\ ops' = ops + 1
    /\ UNCHANGED <<viewMode, prompt, aspectRatio, isGenerating, history,
                   error, currentNFT, isEditing, editState, canvas, apiKey,
                   gens, edits, nextId, clock, loaded, crashed>>

\* deleteFromHistory(id, e)
deleteFromHistory(id) ==
    /\ IsMounted
    /\ viewMode = "forge"
    /\ \E i \in 1..Len(history) : history[i].id = id
    /\ history' = SelectSeqBy(history, id)
    /\ listedIds' = SetDelete(listedIds, id)
    /\ currentNFT' = IF currentNFT # <<>> /\ currentNFT[1].id = id THEN <<>> ELSE currentNFT
    /\ storage' = Persist(SelectSeqBy(history, id), SetDelete(listedIds, id))
    /\ ops' = ops + 1
    /\ UNCHANGED <<viewMode, prompt, aspectRatio, isGenerating, error,
                   isEditing, editState, canvas, apiKey, gens, edits, nextId,
                   clock, loaded, crashed>>

\* ------------------------------------------------------------------ editing
\* {currentNFT && !isEditing && (...)}: the action bar of the forge view.
ActionBarShown == viewMode = "forge" /\ currentNFT # <<>> /\ ~isEditing

\* {currentNFT ? ... {isEditing && (...)}}: the edit panel of the forge view.
EditPanelShown == viewMode = "forge" /\ currentNFT # <<>> /\ isEditing

\* onClick={() => setIsEditing(true)}
EnterEdit ==
    /\ IsMounted
    /\ ActionBarShown
    /\ isEditing' = TRUE
    /\ UNCHANGED <<viewMode, prompt, aspectRatio, isGenerating, history,
                   listedIds, error, currentNFT, editState, canvas, storage,
                   apiKey, gens, edits, nextId, clock, ops, loaded, crashed>>

\* Cancel: onClick={() => setIsEditing(false)}
CancelEdit ==
    /\ IsMounted
    /\ EditPanelShown
    /\ isEditing' = FALSE
    /\ UNCHANGED <<viewMode, prompt, aspectRatio, isGenerating, history,
                   listedIds, error, currentNFT, editState, canvas, storage,
                   apiKey, gens, edits, nextId, clock, ops, loaded, crashed>>

\* The props that get a range input.
SliderProps == {"brightness", "contrast", "grayscale"}

\* onChange={(e) => setEditState({...editState, [prop]: parseInt(e.target.value)})}
SetSlider(prop, value) ==
    /\ IsMounted
    /\ EditPanelShown
    /\ editState' = [editState EXCEPT ![prop] = value]
    /\ ops' = ops + 1
    /\ UNCHANGED <<viewMode, prompt, aspectRatio, isGenerating, history,
                   listedIds, error, currentNFT, isEditing, canvas, storage,
                   apiKey, gens, edits, nextId, clock, loaded, crashed>>

\* Rotate: setEditState({...editState, rotation: (editState.rotation + 90) % 360})
Rotate ==
    /\ IsMounted
    /\ EditPanelShown
    /\ editState' = [editState EXCEPT !.rotation = (editState.rotation + 90) % 360]
    /\ ops' = ops + 1
    /\ UNCHANGED <<viewMode, prompt, aspectRatio, isGenerating, history,
                   listedIds, error, currentNFT, isEditing, canvas, storage,
                   apiKey, gens, edits, nextId, clock, loaded, crashed>>

\* Reset: setEditState(INITIAL_EDIT_STATE)
ResetEdit ==
    /\ IsMounted
    /\ EditPanelShown
    /\ editState' = INITIAL_EDIT_STATE
    /\ ops' = ops + 1
    /\ UNCHANGED <<viewMode, prompt, aspectRatio, isGenerating, history,
                   listedIds, error, currentNFT, isEditing, canvas, storage,
                   apiKey, gens, edits, nextId, clock, loaded, crashed>>

\* applyEdits when canvas.getContext('2d') gives null: return
ApplyEditsNoContext ==
    /\ IsMounted
    /\ EditPanelShown
    /\ UNCHANGED vars

\* applyEdits up to `await new Promise((resolve) => { img.onload = resolve; })`:
\* the closure keeps currentNFT and editState of this render.
ApplyEditsStart ==
    /\ IsMounted
    /\ EditPanelShown
    /\ edits' = Append(edits, [nft |-> currentNFT[1], editState |-> editState])
    /\ ops' = ops + 1
    /\ UNCHANGED <<viewMode, prompt, aspectRatio, isGenerating, history,
                   listedIds, error, currentNFT, isEditing, editState, canvas,
                   storage, apiKey, gens, nextId, clock, loaded, crashed>>

\* The bug of swapping the sides for a quarter turn to the right only.
IsQuarterTurn(es) == es.rotation = 90

\* const isHorizontalRotation = editState.rotation % 180 !== 0
IsHorizontalRotation(es) == es.rotation % 180 # 0

\* canvas.width / canvas.height for the decoded img
CanvasSize(img, es) ==
    [width |-> IF IsHorizontalRotation(es) THEN img.h ELSE img.w,
     height |-> IF IsHorizontalRotation(es) THEN img.w ELSE img.h]

\* canvas.toDataURL('image/png') after filter, translate, rotate, drawImage
ToDataURL(img, es) ==
    DataUrl([src |-> img.src, w |-> CanvasSize(img, es).width,
             h |-> CanvasSize(img, es).height, fx |-> Append(img.fx, es)])

\* The bug of moving the edited asset to the head of the history.
MapReplaceToFront(prev, updatedNFT) ==
    IF updatedNFT.id \in {prev[k].id : k \in 1..Len(prev)}
    THEN <<updatedNFT>> \o SelectSeqBy(prev, updatedNFT.id)
    ELSE prev

RECURSIVE MapReplace(_, _)
\* prev.map(item => item.id === currentNFT.id ? updatedNFT : item)
MapReplace(prev, updatedNFT) ==
    IF prev = <<>> THEN <<>>
    ELSE <<IF Head(prev).id = updatedNFT.id THEN updatedNFT ELSE Head(prev)>>
         \o MapReplace(Tail(prev), updatedNFT)

\* The continuation of applyEdits call i when img.onload fires.
ApplyEditsLoaded(i) ==
    /\ IsMounted
    /\ i \in 1..Len(edits)
    /\ Decodes(edits[i].nft.url)
    /\ LET img == edits[i].nft.url[2]
           es == edits[i].editState
           updatedNFT == [edits[i].nft EXCEPT !.url = ToDataURL(img, es)]
       IN /\ canvas' = CanvasSize(img, es)
          /\ currentNFT' = <<updatedNFT>>
          /\ history' = MapReplace(history, updatedNFT)
          /\ storage' = Persist(MapReplace(history, updatedNFT), listedIds)
    /\ isEditing' = FALSE
    /\ editState' = INITIAL_EDIT_STATE
    /\ edits' = RemoveAt(edits, i)
    /\ UNCHANGED <<viewMode, prompt, aspectRatio, isGenerating, listedIds,
                   error, apiKey, gens, nextId, clock, ops, loaded, crashed>>

\* ------------------------------------------------------------ specification
\* The history positions a click may land on.
Picks == {i \in 1..Len(history) : i <= MaxPick \/ i = Len(history)}

\* The session may still issue a counted command.
Budget == ops < MaxOps

Next ==
    \/ \E mode \in {"forge", "marketplace"} : SetViewMode(mode)
    \/ \E text \in Prompts : SetPrompt(text)
    \/ \E ratio \in RatioInputs : Budget /\ SetAspectRatio(ratio)
    \/ GenerateBlank
    \/ GenerateNoKey
    \/ Budget /\ GenerateStart
    \/ \E i \in 1..Len(gens), resp \in Responses : GenerateSuccess(i, resp)
    \/ \E i \in 1..Len(gens), resp \in Responses : GenerateFailure(i, resp)
    \/ \E i \in Picks : Select(i)
    \/ \E platform \in Platforms, i \in Picks : Budget /\ listOnPlatform(platform, i)
    \/ \E i \in Picks : Budget /\ deleteFromHistory(history[i].id)
    \/ EnterEdit
    \/ CancelEdit
    \/ \E prop \in SliderProps, value \in SliderInputs : Budget /\ SetSlider(prop, value)
    \/ Budget /\ Rotate
    \/ Budget /\ ResetEdit
    \/ ApplyEditsNoContext
    \/ Budget /\ ApplyEditsStart
    \/ \E i \in 1..Len(edits) : ApplyEditsLoaded(i)

Spec == Init /\ [][Next]_vars

\* The collaborator settles every call, resolving or rejecting.
AnswersArrive ==
    WF_vars(\E i \in 1..Len(gens), resp \in Responses :
                GenerateSuccess(i, resp) \/ GenerateFailure(i, resp))

\* The browser fires the load event of every image that decodes, and the
\* collaborator settles every call.
Fairness ==
    /\ WF_vars(\E i \in 1..Len(edits) : ApplyEditsLoaded(i))
    /\ AnswersArrive

SpecLive == Init /\ [][Next]_vars /\ Fairness

\* ------------------------------------------------- the thirteen-run scenario
\* Generate calls of the scenario of successive generations.
MaxRun == 13

\* A session on an empty storage that only types prompts and generates.
InitRun == Mounted([nft_history |-> Absent, nft_listed |-> Absent], TRUE)

\* The collaborator's answers in the scenario: one failure, one image.
RunResponses ==
    { Rejected("quota exceeded"),
      Resolved(<< << <<>>, <<PayloadA>>, <<PayloadB>> >> >>) }

NextRun ==
    \/ \E mode \in {"forge", "marketplace"} : SetViewMode(mode)
    \/ \E text \in Prompts : SetPrompt(text)
    \/ GenerateBlank
    \/ ops < MaxRun /\ GenerateStart
    \/ \E i \in 1..Len(gens), resp \in RunResponses : GenerateSuccess(i, resp)
    \/ \E i \in 1..Len(gens), resp \in RunResponses : GenerateFailure(i, resp)

SpecRun == InitRun /\ [][NextRun]_vars

\* --------------------------------------------------- the generating scenario
\* Generate calls of the generating scenario.
MaxBusy == 3

\* A session that generates, with or without an API key, while it switches
\* views, selects and opens and closes the edit panel.
NextBusy ==
    \/ \E mode \in {"forge", "marketplace"} : SetViewMode(mode)
    \/ \E text \in Prompts : SetPrompt(text)
    \/ GenerateBlank
    \/ GenerateNoKey
    \/ ops < MaxBusy /\ GenerateStart
    \/ \E i \in 1..Len(gens), resp \in Responses : GenerateSuccess(i, resp)
    \/ \E i \in 1..Len(gens), resp \in Responses : GenerateFailure(i, resp)
    \/ \E i \in Picks : Select(i)
    \/ EnterEdit
    \/ CancelEdit

SpecBusy == Init /\ [][NextBusy]_vars /\ AnswersArrive

\* ------------------------------------------------------ the editing scenario
\* Commands of the editing scenario.
MaxEdit == 5

\* A session on the stored history of two generations.
InitEdit ==
    Mounted([nft_history |-> StringifyHistory(StoredHistory(2)),
             nft_listed |-> Stringify(<<>>)], TRUE)

\* A session that only selects and edits.
NextEdit ==
    \/ \E i \in 1..Len(history) : Select(i)
    \/ EnterEdit
    \/ CancelEdit
    \/ \E prop \in SliderProps, value \in SliderInputs :
           ops < MaxEdit /\ SetSlider(prop, value)
    \/ ops < MaxEdit /\ Rotate
    \/ ops < MaxEdit /\ ResetEdit
    \/ ApplyEditsNoContext
    \/ ops < MaxEdit /\ ApplyEditsStart
    \/ \E i \in 1..Len(edits) : ApplyEditsLoaded(i)

SpecEdit == InitEdit /\ [][NextEdit]_vars

\* ------------------------------------------------------------------ claims
Ids(h) == {h[i].id : i \in 1..Len(h)}

\* handleGenerate, whichever way it goes.
HandleGenerate == GenerateBlank \/ GenerateNoKey \/ GenerateStart

\* C1: the asset history never holds more than 12 assets.
C1_HistoryBounded == Len(history) <= HistoryCap

\* A generation has completed on a full history of a session that deleted nothing.
C1_Witness ==
    /\ Len(history) = HistoryCap
    /\ nextId = HistoryCap + 2
    /\ Ids(history) = 2..(HistoryCap + 1)

\* C2: eviction is FIFO. A generation that succeeds on a history of 12 leaves
\* the new asset followed by the previous first 11 in their order, dropping
\* exactly the last; and once 13 successive generations have succeeded the
\* history holds 12 assets, the 13th as its head, the 1st absent.
C2_EvictionStep ==
    \A i \in 1..Len(gens), resp \in Responses :
        GenerateSuccess(i, resp) /\ Len(history) = HistoryCap
        => /\ Len(history') = HistoryCap
           /\ history'[1].id = nextId
           /\ history'[1].id \notin Ids(history)
           /\ \A k \in 1..(HistoryCap - 1) : history'[k + 1] = history[k]
           /\ Ids(history) \ Ids(history') = {history[HistoryCap].id}

C2_ThirteenRun ==
    nextId = HistoryCap + 2
    => /\ Len(history) = HistoryCap
       /\ history[1].id = HistoryCap + 1
       /\ 1 \notin Ids(history)
       /\ \A k \in 1..HistoryCap : history[k].id = HistoryCap + 2 - k

C2_FifoEviction == [][C2_EvictionStep]_vars /\ []C2_ThirteenRun

\* The 13th generation has succeeded.
C2_Witness == nextId = HistoryCap + 2 /\ Len(history) = HistoryCap

\* C3: the Selection is empty or has the id of an asset in the history.
C3_SelectionInHistory == currentNFT = <<>> \/ currentNFT[1].id \in Ids(history)

\* C4: every listed id is the id of an asset in the history.
C4_ListedInHistory == Range(listedIds) \subseteq Ids(history)

\* C5: deleting id is one step that removes exactly the asset id from the
\* history and id from the listed set, empties the Selection if it was id, and
\* leaves every other asset, every other listed id and any other Selection alone.
C5_DeleteStep ==
    \A k \in 1..Len(history) :
        /\ ops' = ops + 1 /\ gens' = gens /\ edits' = edits
        /\ editState' = editState /\ aspectRatio' = aspectRatio
        /\ deleteFromHistory(history[k].id)
        => LET id == history[k].id
           IN /\ id \notin Ids(history')
              /\ history' = RemoveAt(history, k)
              /\ id \notin Range(listedIds')
              /\ Len(listedIds') = Cardinality(Range(listedIds) \ {id})
              /\ \A a, b \in 1..Len(listedIds) :
                     a < b /\ listedIds[a] # id /\ listedIds[b] # id
                     => \E c, d \in 1..Len(listedIds') :
                            c < d /\ listedIds'[c] = listedIds[a] /\ listedIds'[d] = listedIds[b]
              /\ Range(listedIds') = Range(listedIds) \ {id}
              /\ currentNFT # <<>> /\ currentNFT[1].id = id => currentNFT' = <<>>
              /\ currentNFT = <<>> \/ currentNFT[1].id # id => currentNFT' = currentNFT

C5_DeleteCascade == [][C5_DeleteStep]_vars

\* The selected, listed head of a history of several assets has been deleted.
C5_Witness ==
    /\ ops = 2
    /\ Len(history) = HistoryCap - 1
    /\ HistoryCap \notin Ids(history)
    /\ currentNFT = <<>>
    /\ listedIds = <<>>
    /\ nextId = HistoryCap + 1
    /\ gens = <<>>
    /\ edits = <<>>
    /\ error = NoError
    /\ aspectRatio = ASPECT_RATIOS[1]
    /\ editState = INITIAL_EDIT_STATE
    /\ ~isEditing

\* C6: a generation that completes successfully puts a new asset at the head of
\* the history, with an id no asset of the history has and the prompt and the
\* aspect ratio the form held when generate was called, and selects it.
C6_GenerateStep ==
    /\ GenerateStart
       => gens'[Len(gens')] = [prompt |-> prompt, aspectRatio |-> aspectRatio]
    /\ \A i \in 1..Len(gens), resp \in Responses :
           GenerateSuccess(i, resp)
           => /\ history' # <<>>
              /\ history'[1].prompt = gens[i].prompt
              /\ history'[1].aspectRatio = gens[i].aspectRatio
              /\ history'[1].id \notin Ids(history)
              /\ \A k \in 2..Len(history') : history'[k] = history[k - 1]
              /\ currentNFT' = <<history'[1]>>

C6_GenerateCreates == [][C6_GenerateStep]_vars

\* The newest asset is selected and was asked for with another prompt and
\* another aspect ratio than the form holds while nothing else was done.
C6_Witness ==
    /\ history # <<>>
    /\ history[1].id = nextId - 1
    /\ history[1].timestamp = clock - 1
    /\ currentNFT = <<history[1]>>
    /\ history[1].prompt # prompt
    /\ history[1].aspectRatio # aspectRatio
    /\ ops = 2
    /\ gens = <<>>

\* The text is empty or whitespace only.
AllWhitespace(text) == \A k \in 1..Len(text) : IsSpace(text[k])

\* C7: generate with an empty or whitespace-only prompt calls no collaborator
\* and leaves history, listed set, Selection, edit mode, edit parameters and
\* the busy flag as they were.
C7_BlankStep ==
    HandleGenerate /\ AllWhitespace(prompt)
    => /\ gens' = gens
       /\ history' = history
       /\ listedIds' = listedIds
       /\ currentNFT' = currentNFT
       /\ isEditing' = isEditing
       /\ editState' = editState
       /\ isGenerating' = isGenerating
       /\ storage' = storage

C7_BlankPromptRejected == [][C7_BlankStep]_vars

\* Generate was clicked on a whitespace-only prompt while the edit panel was
\* open on changed parameters.
C7_Witness ==
    /\ error = MsgNoPrompt
    /\ prompt = <<" ">>
    /\ isEditing
    /\ editState # INITIAL_EDIT_STATE
    /\ currentNFT # <<>>

\* The collaborator's answer carries no inline image.
NoInlineImage(resp) ==
    \/ resp.rejects
    \/ resp.candidates = <<>>
    \/ \A k \in 1..Len(resp.candidates[1]) : resp.candidates[1][k] = <<>>

\* C8: a generation that fails (no credential, the collaborator fails, no
\* inline image) creates no asset: history and Selection stay, an error message
\* is set and the busy flag is cleared.
C8_FailureStep ==
    (\/ GenerateNoKey
     \/ \E i \in 1..Len(gens), resp \in Responses :
            /\ NoInlineImage(resp)
            /\ GenerateSuccess(i, resp) \/ GenerateFailure(i, resp))
    => /\ history' = history
       /\ currentNFT' = currentNFT
       /\ storage' = storage
       /\ nextId' = nextId
       /\ error' \notin {NoError, ""}
       /\ isGenerating' = FALSE

C8_FailureKeepsState == [][C8_FailureStep]_vars

\* A generation failed for want of an inline image, on a session with a Selection.
C8_Witness ==
    /\ error = MsgNoImage
    /\ ~isGenerating
    /\ gens = <<>>
    /\ currentNFT # <<>>
    /\ ops >= 1

\* C9: at most one generation is in flight, and while one is the Generate
\* control takes no click.
C9_SingleFlight ==
    /\ Len(gens) <= 1
    /\ gens # <<>> => ~GenerateClickable /\ ~ENABLED HandleGenerate

\* A second generation is in flight after the first one completed.
C9_Witness ==
    /\ Len(gens) = 1
    /\ ops = 2
    /\ history # <<>>
    /\ history[1].id = nextId - 1
    /\ nextId = Len(history) + 1
    /\ Len(history) = 1

RECURSIVE Count(_, _)
\* How many times x occurs in s.
Count(s, x) ==
    IF s = <<>> THEN 0 ELSE (IF Head(s) = x THEN 1 ELSE 0) + Count(Tail(s), x)

\* C10: marking an asset listed twice gives the listed set that marking it
\* once gives, with the id in it exactly once, whatever the share action.
C10_ListStep ==
    \A platform \in Platforms, i \in 1..Len(history) :
        listOnPlatform(platform, i)
        => LET id == history[i].id
           IN /\ Count(listedIds', id) = 1
              /\ id \in Range(listedIds) => listedIds' = listedIds
              /\ id \notin Range(listedIds) => listedIds' = Append(listedIds, id)
              /\ SetAdd(listedIds', id) = listedIds'

C10_ListingIdempotent == [][C10_ListStep]_vars

\* The same asset has been marked listed twice and nothing else was done.
C10_Witness ==
    /\ ops = 2
    /\ Len(listedIds) = 1
    /\ viewMode = "marketplace"
    /\ Len(history) = HistoryCap
    /\ nextId = HistoryCap + 1
    /\ gens = <<>>
    /\ edits = <<>>
    /\ error = NoError
    /\ aspectRatio = ASPECT_RATIOS[1]
    /\ editState = INITIAL_EDIT_STATE
    /\ ~isEditing

\* C11: every cancel and every save that completes leaves the edit panel
\* closed and the edit parameters at their defaults (brightness 100, contrast
\* 100, grayscale 0, sepia 0, rotation 0).
C11_ResetStep ==
    CancelEdit \/ (\E i \in 1..Len(edits) : ApplyEditsLoaded(i))
    => ~isEditing' /\ editState' = INITIAL_EDIT_STATE

C11_ParametersReset == [][C11_ResetStep]_vars

\* C12: a generation started while the edit panel is open closes the panel
\* and puts the edit parameters back at their defaults.
C12_StartStep ==
    (GenerateStart \/ GenerateNoKey) /\ isEditing
    => ~isEditing' /\ editState' = INITIAL_EDIT_STATE

C12_GenerateDiscardsEdit == [][C12_StartStep]_vars

\* C13: the edit panel is open only while an asset is selected, and the edit
\* button can be clicked only in the forge view, on a selected asset, with the
\* panel closed.
C13_EditingHasSelection ==
    /\ isEditing => currentNFT # <<>>
    /\ ENABLED EnterEdit => viewMode = "forge" /\ currentNFT # <<>> /\ ~isEditing

\* C14: a save that completes changes nothing of the history but the url of
\* the edited asset: same length, same ids in the same order, same prompt,
\* timestamp and aspect ratio of every asset, every other asset as it was, and
\* the listed set as it was.
C14_SaveStep ==
    \A i \in 1..Len(edits) :
        edits' # edits /\ ops' = ops /\ gens' = gens /\ ApplyEditsLoaded(i)
        => /\ Len(history') = Len(history)
           /\ \A k \in 1..Len(history) :
                  /\ history'[k].id = history[k].id
                  /\ history'[k].prompt = history[k].prompt
                  /\ history'[k].timestamp = history[k].timestamp
                  /\ history'[k].aspectRatio = history[k].aspectRatio
                  /\ history[k].id # edits[i].nft.id => history'[k] = history[k]
           /\ listedIds' = listedIds

C14_SaveInPlace == [][C14_SaveStep]_vars

\* The oldest asset of a full history has been edited with changed parameters
\* and saved.
C14_Witness ==
    /\ Len(history) = HistoryCap
    /\ history[HistoryCap].url[2].fx # <<>>
    /\ history[HistoryCap].url[2].fx[1] # INITIAL_EDIT_STATE
    /\ history[1].url[2].fx = <<>>
    /\ edits = <<>>

\* C15: a save that completes on a source of W x H pixels with rotation 0, 90,
\* 180 or 270 leaves the canvas H x W when the rotation is 90 or 270 and W x H
\* when it is 0 or 180, and the saved image has the canvas's size.
C15_RotationStep ==
    \A i \in 1..Len(edits) :
        edits' # edits /\ ApplyEditsLoaded(i)
        => LET W == edits[i].nft.url[2].w
               H == edits[i].nft.url[2].h
               rotation == edits[i].editState.rotation
           IN /\ rotation \in {0, 90, 180, 270}
              /\ rotation \in {90, 270} => canvas' = [width |-> H, height |-> W]
              /\ rotation \in {0, 180} => canvas' = [width |-> W, height |-> H]
              /\ currentNFT'[1].url[2].w = canvas'.width
              /\ currentNFT'[1].url[2].h = canvas'.height

C15_RotationDimensions == [][C15_RotationStep]_vars

\* An image of 2 x 1 pixels has been saved with rotation 270 and nothing else
\* changed: the canvas and the saved image are 1 x 2.
C15_Witness ==
    /\ canvas = [width |-> 1, height |-> 2]
    /\ currentNFT # <<>>
    /\ currentNFT[1].url[2].w = 1
    /\ currentNFT[1].url[2].h = 2
    /\ currentNFT[1].url[2].fx = <<[INITIAL_EDIT_STATE EXCEPT !.rotation = 270]>>

\* The stored text is there and is not the JSON text of an array.
Malformed(text) == text.kind \notin {"absent", "json"}

\* C16: a stored record that does not parse, or parses to something that is
\* no array, is treated as absent: the session opens with the empty history
\* (the empty listed set), and no render throws.
C16_MalformedIsAbsent ==
    /\ Malformed(loaded.nft_history)
       => ~crashed /\ (ops = 0 => history = <<>> /\ currentNFT = <<>>)
    /\ Malformed(loaded.nft_listed)
       => ~crashed /\ (ops = 0 => listedIds = <<>>)

C18_GenerateStep ==
    \A i \in 1..Len(gens), resp \in Responses :
        nextId' # nextId /\ GenerateSuccess(i, resp)
        => /\ history'[1].url[2].src # ""
           /\ currentNFT'[1].url[2].src # ""

C18_NoEmptyImage == [][C18_GenerateStep]_vars

\* C19: when a save completes whose asset has left the history during the
\* image decode, the asset is not put back and the history, the listed set and
\* the Selection stay as they were.
C19_LateStep ==
    \A i \in 1..Len(edits) :
        edits' # edits /\ ApplyEditsLoaded(i) /\ edits[i].nft.id \notin Ids(history)
        => /\ edits[i].nft.id \notin Ids(history')
           /\ history' = history
           /\ listedIds' = listedIds
           /\ currentNFT' = currentNFT

C19_LateEditDiscarded == [][C19_LateStep]_vars

\* The url carries no image data: there is nothing to decode.
NoImageData(url) == url[2].src = ""

\* C20: a save on an asset whose image does not decode, or without a rendering
\* context, changes nothing: clicking it leaves the history, the listed set
\* and the Selection as they were, the save never completes, and the url of
\* an asset that does not decode is never written again.
C20_AbortStep ==
    /\ ApplyEditsNoContext \/ (ApplyEditsStart /\ NoImageData(currentNFT[1].url))
       => history' = history /\ listedIds' = listedIds /\ currentNFT' = currentNFT
    /\ \A i \in 1..Len(edits) :
           NoImageData(edits[i].nft.url) => ~ApplyEditsLoaded(i)
    /\ history' # history
       => \A k \in 1..Len(history), j \in 1..Len(history') :
              NoImageData(history[k].url) /\ history'[j].id = history[k].id
              => history'[j].url = history[k].url

C20_FailedEditKeepsState == [][C20_AbortStep]_vars

\* Save Changes was clicked on a selected asset whose image does not decode,
\* and the edit panel is still open on it.
C20_Witness ==
    /\ edits # <<>>
    /\ NoImageData(edits[1].nft.url)
    /\ currentNFT = <<edits[1].nft>>
    /\ edits[1].nft.id \in Ids(history)
    /\ isEditing

\* C21: every save that was started eventually finishes: no applyEdits call
\* stays suspended at the image decode forever.
C21_SaveFinishes == (edits # <<>>) ~> (edits = <<>>)

\* C22: the edit parameters stay in their ranges: brightness and contrast in
\* 0..200, grayscale and sepia in 0..100, rotation one of 0, 90, 180, 270.
C22_ParametersInRange ==
    /\ editState.brightness \in 0..200
    /\ editState.contrast \in 0..200
    /\ editState.grayscale \in 0..100
    /\ editState.sepia \in 0..100
    /\ editState.rotation \in {0, 90, 180, 270}

\* C23: the busy flag is set exactly while a generation call is outstanding,
\* and a set flag is eventually cleared, whether the call succeeds or fails.
C23_BusyTracksCall ==
    /\ [](isGenerating <=> gens # <<>>)
    /\ isGenerating ~> ~isGenerating

\* One generation has succeeded, the next one has failed, and the flag is
\* clear again.
C23_Witness ==
    /\ ~isGenerating
    /\ gens = <<>>
    /\ error = "quota exceeded"
    /\ Len(history) = 1
    /\ nextId = 2
    /\ ops = 2
    /\ aspectRatio = ASPECT_RATIOS[1]

\* C24: a save that completes while another asset is selected leaves that
\* asset selected, and changes no asset of the history but the one that was
\* selected when the save was started.
C24_CompletionStep ==
    \A i \in 1..Len(edits) :
        /\ edits' # edits
        /\ ApplyEditsLoaded(i)
        /\ currentNFT # <<>>
        /\ currentNFT[1].id # edits[i].nft.id
        => /\ currentNFT' # <<>>
           /\ currentNFT'[1].id = currentNFT[1].id
           /\ Len(history') = Len(history)
           /\ \A k \in 1..Len(history) :
                  history[k].id # edits[i].nft.id => history'[k] = history[k]

C24_SelectionSurvivesSave == [][C24_CompletionStep]_vars

====
